---- MODULE Spec2Model ----
(***************************************************************************)
(* A model of torchtitan/parallelisms/parallelize_llama.py: pipeline       *)
(* partitioning (manual / tracer), pipeline schedule selection, the        *)
(* activation checkpoint wrapper (full / selective-op / selective-cadence) *)
(* and the orchestration pass parallelize_llama (TP -> AC -> FSDP).        *)
(***************************************************************************)
EXTENDS Integers, Sequences, FiniteSets, TLC

(***************************************************************************)
(* Bounds of the model.                                                    *)
(***************************************************************************)
MaxLayers == 8      \* len(model.layers) handed to the pipeline partitioner
MaxPP == 3          \* size of the pipeline axis
MaxBlocks == 3      \* transformer blocks of the model given to parallelize_llama
MaxTP == 3          \* size of the tensor axis
MaxHeads == 4       \* attention head count of a block
MaxCadence == 2     \* largest cadence written in selective_ac_option
MaxVisits == 5      \* direct checkpoint_wrapper calls in cadence mode
MaxPasses == 2      \* calls of parallelize_llama in one process
MaxOps == 4         \* operations executed inside one checkpointed block
MaxInvocations == 2 \* entries into a checkpointed block

VARIABLES
    ppCall,     \* arguments of the last apply_pipeline_parallelism call
    ppRet,      \* what that call returned or raised
    schedCall,  \* arguments of the last build_pipeline_schedule call
    schedRet,   \* what that call returned or raised
    _count,     \* checkpoint_wrapper._count, the function attribute
    acCall,     \* config of the last direct checkpoint_wrapper call
    acRet,      \* what that call returned or raised
    visitLog,   \* cadence-mode visits so far: <<[N, wrapped], ...>>
    meta,       \* defaultdict(int) of the current selective-op context
    opSeq,      \* operations the checkpointed block executes
    opMode,     \* "idle" | "forward" | "recompute"
    opPos,      \* operations already dispatched in the current mode
    opLog,      \* policy decisions of the current invocation, per mode
    invocations,\* entries into the checkpointed block so far
    earlierMM,  \* matrix multiplies dispatched by the finished invocations
    pc,         \* position inside parallelize_llama
    cfg,        \* inputs of the running parallelize_llama call
    model,      \* the model being transformed
    idx,        \* loop position in model.layers
    log,        \* transformations applied by the running call, in order
    passes      \* calls of parallelize_llama started so far

vars == <<ppCall, ppRet, schedCall, schedRet, _count, acCall, acRet, visitLog,
          meta, opSeq, opMode, opPos, opLog, invocations, earlierMM,
          pc, cfg, model, idx, log, passes>>

ppVars == <<ppCall, ppRet, schedCall, schedRet>>
acVars == <<acCall, acRet, visitLog>>
opVars == <<meta, opSeq, opMode, opPos, opLog, invocations, earlierMM>>
plVars == <<pc, cfg, model, idx, log, passes>>

Range(s) == {s[k] : k \in 1..Len(s)}

(***************************************************************************)
(* Pipeline partitioning.                                                  *)
(***************************************************************************)
\* f"layers.{i}" and the three fixed names; a name is <<module, index>>.
LayerName(i) == <<"layers", i>>
TokEmbeddingsName == <<"tok_embeddings", -1>>
NormName == <<"norm", -1>>
OutputName == <<"output", -1>>

SplitModes == {"manual", "tracer", "foo"}
NormTypes == {"rmsnorm", "fused_rmsnorm"}
ScheduleNames == {"1f1b", "gpipe", "foo"}

layers_per_rank(L, pp) == L \div pp

layer_offset(L, pp, pp_rank) == layers_per_rank(L, pp) * pp_rank

\* the list as built by the comprehension and the insert / append calls
this_stage_layer_names(L, pp, pp_rank) ==
    LET base == [k \in 1..layers_per_rank(L, pp) |->
                     LayerName((k - 1) + layer_offset(L, pp, pp_rank))]
    IN  IF pp_rank = 0 THEN <<TokEmbeddingsName>> \o base
        ELSE IF pp_rank = pp - 1 THEN base \o <<NormName, OutputName>>
        ELSE base

\* the two assert statements of the rank branches
stage_asserts_hold(L, pp, pp_rank) ==
    LET names == this_stage_layer_names(L, pp, pp_rank)
    IN  IF pp_rank = 0 THEN LayerName(0) \in Range(names)
        ELSE IF pp_rank = pp - 1 THEN LayerName(1) \in Range(names)
        ELSE TRUE

IsLayerName(name) == name[1] = "layers"

\* TransformerChunk.__init__: which submodules of orig_model the chunk holds
TransformerChunk(names) ==
    LET layerNames == SelectSeq(names, IsLayerName)
    IN  [tok_embeddings |-> TokEmbeddingsName \in Range(names),
         layers |-> [k \in 1..Len(layerNames) |-> layerNames[k][2]],
         norm |-> NormName \in Range(names),
         output |-> OutputName \in Range(names)]

NoModule == [tok_embeddings |-> FALSE, layers |-> <<>>,
             norm |-> FALSE, output |-> FALSE]

PPRaise(err, steps) ==
    [status |-> err, steps |-> steps, via |-> "none", stage_idx |-> -1,
     split_spec |-> {}, module |-> NoModule]

apply_pipeline_parallelism_manual(L, pp, pp_rank) ==
    IF ~stage_asserts_hold(L, pp, pp_rank)
    THEN PPRaise("AssertionError", <<"partition">>)
    ELSE [status |-> "ok",
          steps |-> <<"partition", "TransformerChunk", "ManualPipelineStage">>,
          via |-> "manual", stage_idx |-> pp_rank, split_spec |-> {},
          module |-> TransformerChunk(this_stage_layer_names(L, pp, pp_rank))]

\* pp_enabled is parallel_dims.pp > 1; the stage module is cut by the tracer
apply_pipeline_parallelism_tracer(L, pp, pp_rank, norm_type) ==
    IF ~(pp > 1) THEN PPRaise("AssertionError", <<>>)
    ELSE IF norm_type = "fused_rmsnorm" THEN PPRaise("NotImplementedError", <<>>)
    ELSE [status |-> "ok",
          steps |-> <<"partition", "pipeline", "_PipelineStage">>,
          via |-> "tracer", stage_idx |-> pp_rank,
          split_spec |-> {k * layers_per_rank(L, pp) : k \in 1..(pp - 1)},
          module |-> NoModule]

\* the mutant treats every mode that is not "tracer" as "manual"
apply_pipeline_parallelism_default_manual(split_mode, L, pp, pp_rank, norm_type) ==
    IF split_mode = "tracer"
    THEN apply_pipeline_parallelism_tracer(L, pp, pp_rank, norm_type)
    ELSE apply_pipeline_parallelism_manual(L, pp, pp_rank)

apply_pipeline_parallelism(split_mode, L, pp, pp_rank, norm_type) ==
    IF split_mode = "manual"
    THEN apply_pipeline_parallelism_manual(L, pp, pp_rank)
    ELSE IF split_mode = "tracer"
    THEN apply_pipeline_parallelism_tracer(L, pp, pp_rank, norm_type)
    ELSE PPRaise("NotImplementedError", <<>>)

build_pipeline_schedule(schedule, pp) ==
    IF schedule = "1f1b"
    THEN [status |-> "ok", steps |-> <<"Schedule1F1B">>,
          schedule_class |-> "Schedule1F1B", n_microbatches |-> pp]
    ELSE IF schedule = "gpipe"
    THEN [status |-> "ok", steps |-> <<"ScheduleGPipe">>,
          schedule_class |-> "ScheduleGPipe", n_microbatches |-> pp]
    ELSE [status |-> "NotImplementedError", steps |-> <<>>,
          schedule_class |-> "none", n_microbatches |-> 0]

NoCall == [fn |-> "none"]
NoRet == [status |-> "none"]

ApplyPipelineParallelism ==
    \E split_mode \in SplitModes, L \in 1..MaxLayers, pp \in 1..MaxPP,
       norm_type \in NormTypes :
      \E pp_rank \in 0..(pp - 1) :
        /\ ppCall' = [fn |-> "apply_pipeline_parallelism",
                      split_mode |-> split_mode, L |-> L, pp |-> pp,
                      pp_rank |-> pp_rank, norm_type |-> norm_type]
        /\ ppRet' = apply_pipeline_parallelism(split_mode, L, pp, pp_rank, norm_type)
        /\ UNCHANGED <<schedCall, schedRet, _count, acVars, opVars, plVars>>

\* called by the trainer with the stage a successful partitioning returned
BuildPipelineSchedule ==
    /\ ppRet.status = "ok"
    /\ \E schedule \in ScheduleNames :
        /\ schedCall' = [fn |-> "build_pipeline_schedule", schedule |-> schedule]
        /\ schedRet' = build_pipeline_schedule(schedule, ppCall.pp)
    /\ UNCHANGED <<ppCall, ppRet, _count, acVars, opVars, plVars>>

(***************************************************************************)
(* Activation checkpoint wrapper.                                          *)
(***************************************************************************)
\* config.selective_ac_option is a string: a sequence of characters
DigitChars == <<"0", "1", "2", "3", "4", "5", "6", "7", "8", "9">>

OptOp == <<"o", "p">>
OptFoo == <<"f", "o", "o">>
OptMinusOne == <<"-", "1">>
OptEmpty == <<>>
OptZeroTwo == <<"0", "2">>

\* str.isdigit(): non-empty and every character a digit
isdigit(s) == Len(s) > 0 /\ \A k \in 1..Len(s) : s[k] \in Range(DigitChars)

DigitValue(c) == (CHOOSE d \in 1..10 : DigitChars[d] = c) - 1

\* int(s) of a string of digits
RECURSIVE int(_)
int(s) ==
    IF Len(s) = 0 THEN 0
    ELSE 10 * int(SubSeq(s, 1, Len(s) - 1)) + DigitValue(s[Len(s)])

\* the decimal string of n >= 0, as a config file would carry it
RECURSIVE str(_)
str(n) ==
    IF n < 10 THEN <<DigitChars[n + 1]>>
    ELSE str(n \div 10) \o <<DigitChars[(n % 10) + 1]>>

ACModes == {"none", "full", "selective"}
CadenceOptions == {str(n) : n \in 0..MaxCadence}
ACOptions == {OptOp, OptFoo, OptMinusOne, OptEmpty, OptZeroTwo} \cup CadenceOptions
ACConfigs == [mode : ACModes, selective_ac_option : ACOptions]

\* the mutant checks the counter before it is incremented
cadence_wraps_stale(every_x_layer, count) ==
    every_x_layer = 0 \/ (count - 1) % every_x_layer = 0

\* not every_x_layer or checkpoint_wrapper._count % every_x_layer == 0
cadence_wraps(every_x_layer, count) ==
    every_x_layer = 0 \/ count % every_x_layer = 0

\* the mutant lets an unknown configuration through, unwrapped
unknown_ac_config_passes(count) ==
    [status |-> "ok", wrapper |-> "none", count |-> count]

\* the final else branch: raise NotImplementedError
unknown_ac_config(count) ==
    [status |-> "NotImplementedError", wrapper |-> "none", count |-> count]

\* checkpoint_wrapper(module, config) with checkpoint_wrapper._count = count:
\* how the returned module is wrapped, and the counter afterwards
checkpoint_wrapper(config, count) ==
    IF config.mode = "selective" /\ config.selective_ac_option = OptOp
    THEN [status |-> "ok", wrapper |-> "selective_op", count |-> count]
    ELSE IF config.mode = "full"
    THEN [status |-> "ok", wrapper |-> "full", count |-> count]
    ELSE IF config.mode = "selective" /\ isdigit(config.selective_ac_option)
    THEN LET every_x_layer == int(config.selective_ac_option)
             incremented == count + 1
         IN  IF ~(every_x_layer >= 0)
             THEN [status |-> "AssertionError", wrapper |-> "none", count |-> count]
             ELSE IF cadence_wraps(every_x_layer, incremented)
             THEN [status |-> "ok", wrapper |-> "full", count |-> incremented]
             ELSE [status |-> "ok", wrapper |-> "none", count |-> incremented]
    ELSE unknown_ac_config(count)

IsCadenceConfig(config) ==
    config.mode = "selective" /\ isdigit(config.selective_ac_option)

\* a direct call of checkpoint_wrapper on some block
CheckpointWrapper ==
    \E config \in ACConfigs :
        LET r == checkpoint_wrapper(config, _count)
        IN  /\ IsCadenceConfig(config) => Len(visitLog) < MaxVisits
            /\ acCall' = [fn |-> "checkpoint_wrapper", mode |-> config.mode,
                          selective_ac_option |-> config.selective_ac_option,
                          count_before |-> _count]
            /\ acRet' = [status |-> r.status, wrapper |-> r.wrapper]
            /\ _count' = r.count
            /\ visitLog' =
                 IF IsCadenceConfig(config) /\ r.status = "ok"
                 THEN Append(visitLog,
                             [N |-> int(config.selective_ac_option),
                              wrapped |-> r.wrapper # "none"])
                 ELSE visitLog
            /\ UNCHANGED <<ppVars, opVars, plVars>>

(***************************************************************************)
(* Selective-op policy inside one checkpointed block.                      *)
(***************************************************************************)
MM == "aten.mm.default"
SDPAEfficient == "aten._scaled_dot_product_efficient_attention.default"
SDPAFlash == "aten._scaled_dot_product_flash_attention.default"
ReduceScatter == "_c10d_functional.reduce_scatter_tensor.default"
OtherOp == "aten.add.Tensor"

no_recompute_list == {MM, SDPAEfficient, SDPAFlash, ReduceScatter}

Funcs == no_recompute_list \cup {OtherOp}
PolicyModes == {"forward", "recompute"}

\* defaultdict(int): every key reads 0 until written
FreshMeta == [m \in PolicyModes |-> 0]

\* the mutant keeps one mm counter for both policy modes
custom_policy_shared_key(m, mode, func) ==
    LET m1 == IF func = MM
              THEN [k \in PolicyModes |-> m["forward"] + 1]
              ELSE m
    IN  [meta |-> m1,
         saved |-> func \in no_recompute_list
                   /\ ~(func = MM /\ m1[mode] % 2 = 0)]

\* the mutant counts every operation, not only mm
custom_policy_counts_all(m, mode, func) ==
    LET m1 == [m EXCEPT ![mode] = @ + 1]
    IN  [meta |-> m1,
         saved |-> func \in no_recompute_list
                   /\ ~(func = MM /\ m1[mode] % 2 = 0)]

\* _custom_policy(mode, func): the meta dict afterwards and the decision
custom_policy(m, mode, func) ==
    LET m1 == IF func = MM THEN [m EXCEPT ![mode] = @ + 1] ELSE m
    IN  [meta |-> m1,
         saved |-> func \in no_recompute_list
                   /\ ~(func = MM /\ m1[mode] % 2 = 0)]

NoOpLog == [m \in PolicyModes |-> <<>>]

\* selective_checkpointing_context_fn: called at each entry into the block
SelectiveCheckpointingContextFn ==
    /\ opMode = "idle"
    /\ invocations < MaxInvocations
    /\ meta' = FreshMeta
    /\ opSeq' = <<>>
    /\ opMode' = "forward"
    /\ opPos' = 0
    /\ opLog' = NoOpLog
    /\ invocations' = invocations + 1
    /\ UNCHANGED <<earlierMM, ppVars, _count, acVars, plVars>>

\* the block's forward pass dispatches one more operation: the policy decides
ForwardOp ==
    /\ opMode = "forward"
    /\ Len(opSeq) < MaxOps
    /\ \E func \in Funcs :
        LET r == custom_policy(meta, "forward", func)
        IN  /\ opSeq' = Append(opSeq, func)
            /\ meta' = r.meta
            /\ opLog' = [opLog EXCEPT !["forward"] =
                             Append(@, [func |-> func, saved |-> r.saved])]
    /\ opPos' = opPos + 1
    /\ UNCHANGED <<opMode, invocations, earlierMM, ppVars, _count, acVars, plVars>>

\* the forward pass of the block is over; backward starts the recomputation
StartRecompute ==
    /\ opMode = "forward"
    /\ opMode' = "recompute"
    /\ opPos' = 0
    /\ UNCHANGED <<meta, opSeq, opLog, invocations, earlierMM,
                   ppVars, _count, acVars, plVars>>

\* the recomputation dispatches the block's next operation again
RecomputeOp ==
    /\ opMode = "recompute"
    /\ opPos < Len(opSeq)
    /\ LET func == opSeq[opPos + 1]
           r == custom_policy(meta, "recompute", func)
       IN  /\ meta' = r.meta
           /\ opLog' = [opLog EXCEPT !["recompute"] =
                            Append(@, [func |-> func, saved |-> r.saved])]
    /\ opPos' = opPos + 1
    /\ UNCHANGED <<opSeq, opMode, invocations, earlierMM,
                   ppVars, _count, acVars, plVars>>

\* recomputation stops once every needed activation is rebuilt
EndRecompute ==
    /\ opMode = "recompute"
    /\ opMode' = "idle"
    /\ earlierMM' = earlierMM + meta["forward"] + meta["recompute"]
    /\ UNCHANGED <<meta, opSeq, opPos, opLog, invocations,
                   ppVars, _count, acVars, plVars>>

(***************************************************************************)
(* The orchestration pass parallelize_llama.                               *)
(***************************************************************************)
NoModel == [tp |-> FALSE, fsdp |-> FALSE, blocks |-> <<>>]

NoCfg == [L |-> 0, tp |-> 1, tp_enabled |-> FALSE, dp_enabled |-> FALSE,
          dp_mesh_dim_names |-> <<"dp">>, norm_type |-> "rmsnorm", n_heads |-> 0, n_kv_heads |-> 0,
          ac |-> [mode |-> "none", selective_ac_option |-> OptOp]]

\* a model as the caller builds it: L identical blocks, nothing applied yet
FreshModel(L, n_heads, n_kv_heads) ==
    [tp |-> FALSE, fsdp |-> FALSE,
     blocks |-> [k \in 1..L |->
                    [n_heads |-> n_heads, n_kv_heads |-> n_kv_heads,
                     tp |-> FALSE, ac |-> "none", fsdp |-> FALSE]]]

\* the activation_checkpoint sections the passes are run with
PassACConfigs ==
    {c \in ACConfigs :
        \/ c.mode = "selective"
              /\ c.selective_ac_option \in {OptOp, OptFoo} \cup CadenceOptions
        \/ c.mode # "selective" /\ c.selective_ac_option = OptOp}

\* dp_mesh.mesh_dim_names as the caller's mesh gives them
DPMeshDimNames == {<<"dp">>, <<"dp", "tp">>}

Event(kind, target) == [kind |-> kind, target |-> target]

\* one iteration of the TP loop: local head counts, then parallelize_module
tp_block(block, tp_size) ==
    [block EXCEPT !.n_heads = @ \div tp_size,
                  !.n_kv_heads = @ \div tp_size,
                  !.tp = TRUE]

\* the mutant shards the block for data parallelism before it wraps it
dp_block_events_fsdp_first(k, wrapper) ==
    <<Event("fsdp", k)>>
        \o (IF wrapper # "none" THEN <<Event("ac", k)>> ELSE <<>>)

\* one iteration of the DP loop: checkpoint_wrapper, then fully_shard
dp_block_events(k, wrapper) ==
    (IF wrapper # "none" THEN <<Event("ac", k)>> ELSE <<>>)
        \o <<Event("fsdp", k)>>

\* a call of parallelize_llama begins; tp_enabled is parallel_dims.tp > 1
ParallelizeLlama ==
    /\ pc = "idle"
    /\ passes < MaxPasses
    /\ \E L \in 1..MaxBlocks, tp \in 1..MaxTP, dp_enabled \in BOOLEAN,
          norm_type \in NormTypes, n_heads \in 2..MaxHeads, ac \in PassACConfigs,
          names \in DPMeshDimNames :
        \E n_kv_heads \in {1, n_heads} :
          /\ cfg' = [L |-> L, tp |-> tp, tp_enabled |-> tp > 1,
                     dp_enabled |-> dp_enabled, dp_mesh_dim_names |-> names,
                     norm_type |-> norm_type,
                     n_heads |-> n_heads, n_kv_heads |-> n_kv_heads, ac |-> ac]
          /\ model' = FreshModel(L, n_heads, n_kv_heads)
    /\ pc' = "start"
    /\ idx' = 1
    /\ log' = <<>>
    /\ passes' = passes + 1
    /\ UNCHANGED <<ppVars, _count, acVars, opVars>>

\* the norm check and parallelize_module on the top-level model
TPModel ==
    /\ pc = "start"
    /\ cfg.tp_enabled
    /\ IF cfg.norm_type = "fused_rmsnorm"
       THEN /\ pc' = "raised"
            /\ UNCHANGED <<model, log>>
       ELSE /\ model' = [model EXCEPT !.tp = TRUE]
            /\ log' = Append(log, Event("tp", 0))
            /\ pc' = "tp_blocks"
    /\ UNCHANGED <<cfg, idx, passes, ppVars, _count, acVars, opVars>>

TPBlock ==
    /\ pc = "tp_blocks"
    /\ idx <= cfg.L
    /\ model' = [model EXCEPT !.blocks[idx] = tp_block(@, cfg.tp)]
    /\ log' = Append(log, Event("tp", idx))
    /\ IF idx = cfg.L
       THEN pc' = "dp" /\ idx' = 1
       ELSE pc' = pc /\ idx' = idx + 1
    /\ UNCHANGED <<cfg, passes, ppVars, _count, acVars, opVars>>

SkipTP ==
    /\ pc = "start"
    /\ ~cfg.tp_enabled
    /\ pc' = "dp"
    /\ UNCHANGED <<cfg, model, idx, log, passes, ppVars, _count, acVars, opVars>>

\* the data-parallel mesh is picked and its axis names asserted
DPMesh ==
    /\ pc = "dp"
    /\ cfg.dp_enabled
    /\ pc' = IF cfg.dp_mesh_dim_names = <<"dp">> THEN "dp_blocks" ELSE "raised"
    /\ UNCHANGED <<cfg, model, idx, log, passes, ppVars, _count, acVars, opVars>>

\* one iteration of the DP loop over model.layers
DPBlock ==
    /\ pc = "dp_blocks"
    /\ cfg.dp_enabled
    /\ idx <= cfg.L
    /\ LET r == IF cfg.ac.mode \in {"full", "selective"}
                THEN checkpoint_wrapper(cfg.ac, _count)
                ELSE [status |-> "ok", wrapper |-> "none", count |-> _count]
       IN  IF r.status # "ok"
           THEN /\ pc' = "raised"
                /\ UNCHANGED <<model, idx, log, _count>>
           ELSE /\ _count' = r.count
                /\ model' = [model EXCEPT !.blocks[idx].ac = r.wrapper,
                                          !.blocks[idx].fsdp = TRUE]
                /\ log' = log \o dp_block_events(idx, r.wrapper)
                /\ idx' = idx + 1
                /\ pc' = pc
    /\ UNCHANGED <<cfg, passes, ppVars, acVars, opVars>>

\* fully_shard on the whole model, then return
DPModel ==
    /\ pc = "dp_blocks"
    /\ cfg.dp_enabled
    /\ idx > cfg.L
    /\ model' = [model EXCEPT !.fsdp = TRUE]
    /\ log' = Append(log, Event("fsdp", 0))
    /\ pc' = "done"
    /\ UNCHANGED <<cfg, idx, passes, ppVars, _count, acVars, opVars>>

SkipDP ==
    /\ pc = "dp"
    /\ ~cfg.dp_enabled
    /\ pc' = "done"
    /\ UNCHANGED <<cfg, model, idx, log, passes, ppVars, _count, acVars, opVars>>

\* the call returns the model, or the exception leaves the call
Return ==
    /\ pc \in {"done", "raised"}
    /\ pc' = "idle"
    /\ cfg' = NoCfg
    /\ model' = NoModel
    /\ idx' = 1
    /\ log' = <<>>
    /\ UNCHANGED <<passes, ppVars, _count, acVars, opVars>>

(***************************************************************************)
(* Specifications.                                                         *)
(***************************************************************************)
Init ==
    /\ ppCall = NoCall
    /\ ppRet = NoRet
    /\ schedCall = NoCall
    /\ schedRet = NoRet
    /\ _count = 0
    /\ acCall = NoCall
    /\ acRet = NoRet
    /\ visitLog = <<>>
    /\ meta = FreshMeta
    /\ opSeq = <<>>
    /\ opMode = "idle"
    /\ opPos = 0
    /\ opLog = NoOpLog
    /\ invocations = 0
    /\ earlierMM = 0
    /\ pc = "idle"
    /\ cfg = NoCfg
    /\ model = NoModel
    /\ idx = 1
    /\ log = <<>>
    /\ passes = 0

\* the orchestration passes of one process
Next ==
    \/ ParallelizeLlama
    \/ TPModel
    \/ TPBlock
    \/ SkipTP
    \/ DPMesh
    \/ DPBlock
    \/ DPModel
    \/ SkipDP
    \/ Return

Spec == Init /\ [][Next]_vars

\* pipeline partitioning and schedule selection
NextPP ==
    \/ ApplyPipelineParallelism
    \/ BuildPipelineSchedule

SpecPP == Init /\ [][NextPP]_vars

\* direct calls of the checkpoint wrapper
NextAC == CheckpointWrapper

SpecAC == Init /\ [][NextAC]_vars

\* the selective-op policy over the operations of a checkpointed block
NextOp ==
    \/ SelectiveCheckpointingContextFn
    \/ ForwardOp
    \/ RecomputeOp
    \/ StartRecompute
    \/ EndRecompute

SpecOp == Init /\ [][NextOp]_vars

(***************************************************************************)
(* Properties.                                                             *)
(***************************************************************************)
IsManualCall ==
    ppCall.fn = "apply_pipeline_parallelism" /\ ppCall.split_mode = "manual"

\* C1: whenever pp divides L, manual partitioning succeeds on the calling
\* rank r, its stage holds exactly the blocks r*(L/pp) .. (r+1)*(L/pp)-1 in
\* order, and over all ranks every block 0..L-1 lies in exactly one stage.
C1_ManualPartitionContiguous ==
    (IsManualCall /\ ppCall.L % ppCall.pp = 0) =>
        LET L == ppCall.L
            pp == ppCall.pp
            r == ppCall.pp_rank
            per == L \div pp
            stageOf(q) == apply_pipeline_parallelism_manual(L, pp, q)
        IN  /\ ppRet.status = "ok"
            /\ ppRet.module.layers = [k \in 1..per |-> r * per + (k - 1)]
            /\ \A b \in 0..(L - 1) :
                 Cardinality({q \in 0..(pp - 1) :
                                 /\ stageOf(q).status = "ok"
                                 /\ b \in Range(stageOf(q).module.layers)}) = 1

\* C2: a stage built by manual partitioning owns the embedding iff its rank
\* is 0, and owns the normalization and the output projection iff its rank
\* is pp_size-1; with pp_size = 1 the single stage owns all three.
C2_EmbeddingAndHeadOwnership ==
    (IsManualCall /\ ppRet.status = "ok") =>
        /\ ppRet.module.tok_embeddings = (ppCall.pp_rank = 0)
        /\ ppRet.module.norm = (ppCall.pp_rank = ppCall.pp - 1)
        /\ ppRet.module.output = (ppCall.pp_rank = ppCall.pp - 1)

\* C3: the k-th block visited in cadence mode with cadence N is wrapped iff
\* N = 0 or k % N = 0, whatever block it is.
C3_CadenceWrapsEveryNth ==
    \A k \in 1..Len(visitLog) :
        visitLog[k].wrapped <=> (visitLog[k].N = 0 \/ k % visitLog[k].N = 0)

\* C3 witness: five blocks visited with N = 2 gave [false, true, false, true, false]
C3_FiveVisitsCadenceTwo ==
    /\ Len(visitLog) = 5
    /\ \A k \in 1..5 : visitLog[k].N = 2
    /\ [k \in 1..5 |-> visitLog[k].wrapped] = <<FALSE, TRUE, FALSE, TRUE, FALSE>>

IsCadencePass == cfg.dp_enabled /\ IsCadenceConfig(cfg.ac)

\* C4: the cadence visit counter is 0 when a pass begins, and a completed
\* cadence pass wraps block k iff N = 0 or k % N = 0, as the first pass of
\* the process did for the same number of blocks and the same N.
C4_CounterResetEachPass ==
    /\ pc = "start" => _count = 0
    /\ (pc = "done" /\ IsCadencePass) =>
          \A k \in 1..cfg.L :
              (model.blocks[k].ac # "none") <=>
                  LET N == int(cfg.ac.selective_ac_option)
                  IN  N = 0 \/ k % N = 0

MMCount(lg, k) == Cardinality({j \in 1..k : lg[j].func = MM})

\* C5: within one pass over a checkpointed block the matrix multiplies
\* numbered 1, 3, 5, ... are saved and those numbered 2, 4, 6, ... are
\* recomputed; the attention kernels and the reduce-scatter are always
\* saved; any other operation is recomputed and is not counted.
C5_SelectiveOpPolicy ==
    \A m \in {"forward", "recompute"} :
        /\ \A k \in 1..Len(opLog[m]) :
             LET e == opLog[m][k]
             IN  /\ e.func = MM => (e.saved <=> MMCount(opLog[m], k) % 2 = 1)
                 /\ e.func \in {SDPAEfficient, SDPAFlash, ReduceScatter} => e.saved
                 /\ e.func \notin {MM, SDPAEfficient, SDPAFlash, ReduceScatter}
                        => ~e.saved
        /\ meta[m] = MMCount(opLog[m], Len(opLog[m]))

\* C5 witness: four matrix multiplies mixed with other operations, the 1st
\* and 3rd saved and the 2nd and 4th recomputed
C5_FourMatmuls ==
    /\ Len(opLog["forward"]) = 4
    /\ \A k \in 1..4 : opLog["forward"][k].func = MM
    /\ [k \in 1..4 |-> opLog["forward"][k].saved] = <<TRUE, FALSE, TRUE, FALSE>>
    /\ Len(opLog["recompute"]) = 4

NonDividingTP ==
    /\ cfg.tp_enabled
    /\ cfg.n_heads % cfg.tp # 0 \/ cfg.n_kv_heads % cfg.tp # 0

\* C6: when the tensor-parallel size does not divide n_heads or n_kv_heads,
\* applying the sharding plan fails, and no block's n_heads or n_kv_heads
\* differs from its value before the call.
C6_NonDividingTPRejected ==
    NonDividingTP =>
        /\ pc \notin {"dp", "dp_blocks", "done"}
        /\ \A k \in 1..Len(model.blocks) :
             /\ model.blocks[k].n_heads = cfg.n_heads
             /\ model.blocks[k].n_kv_heads = cfg.n_kv_heads

\* C7: with the tensor and data axes enabled, the sharding plan is on the
\* top-level model and on every block before any checkpoint or data-parallel
\* wrap; a block's checkpoint wrap precedes its data-parallel wrap; the
\* data-parallel wrap of the whole model follows that of every block.
C7_FixedOrder ==
    (cfg.tp_enabled /\ cfg.dp_enabled) =>
        /\ \A p \in 1..Len(log) :
             log[p].kind \in {"ac", "fsdp"} =>
                 \A t \in 0..cfg.L :
                     \E q \in 1..(p - 1) : log[q] = [kind |-> "tp", target |-> t]
        /\ \A p, q \in 1..Len(log) :
             (log[p].kind = "fsdp" /\ log[q].kind = "ac"
                 /\ log[p].target = log[q].target) => q < p
        /\ \A p \in 1..Len(log) :
             log[p] = [kind |-> "fsdp", target |-> 0] =>
                 \A k \in 1..cfg.L :
                     \E q \in 1..(p - 1) : log[q] = [kind |-> "fsdp", target |-> k]

\* C7 witness: a finished pass with both axes on, two or more blocks, one wrapped
C7_FullPassDone ==
    /\ pc = "done"
    /\ cfg.tp_enabled
    /\ cfg.dp_enabled
    /\ cfg.L >= 2
    /\ \E p \in 1..Len(log) : log[p].kind = "ac"
    /\ \E p \in 1..Len(log) : log[p] = [kind |-> "fsdp", target |-> 0]

\* C8: with pp_size > 1 and L // pp_size = 0, manual partitioning fails on
\* every rank; no rank gets a stage with zero transformer blocks.
C8_ZeroLayerStageRejected ==
    (IsManualCall /\ ppCall.pp > 1 /\ ppCall.L \div ppCall.pp = 0) =>
        ppRet.status # "ok"

AcceptedACCall ==
    \/ acCall.mode = "full"
    \/ acCall.mode = "selective" /\ acCall.selective_ac_option = OptOp
    \/ acCall.mode = "selective"
          /\ acCall.selective_ac_option \in CadenceOptions \cup {OptZeroTwo}

\* C10: every (mode, sub-mode) pair other than full, selective "op" and
\* selective with a non-negative integer cadence makes checkpoint_wrapper
\* raise, return no module and leave the visit counter as it was; a negative
\* cadence is among them.
C10_UnknownConfigRejected ==
    (acCall.fn = "checkpoint_wrapper" /\ ~AcceptedACCall) =>
        /\ acRet.status = "NotImplementedError"
        /\ acRet.wrapper = "none"
        /\ _count = acCall.count_before

\* C10 witness: cadence "-1" rejected after the counter had advanced
C10_NegativeCadenceRejected ==
    /\ acCall.fn = "checkpoint_wrapper"
    /\ acCall.mode = "selective"
    /\ acCall.selective_ac_option = OptMinusOne
    /\ acRet.status = "NotImplementedError"
    /\ _count = 2

MMInPrefix(k) == Cardinality({j \in 1..k : opSeq[j] = MM})

\* C11: the matrix-multiply counters are all zero at every entry into a
\* checkpointed block and are kept per policy mode: the k-th operation of the
\* block gets the same decision in the forward pass and in the recomputation,
\* and every decision is fixed by the operations of this invocation up to k
\* alone, however many matrix multiplies earlier invocations performed.
C11_FreshPerModeCounters ==
    /\ (opMode = "forward" /\ opSeq = <<>>) =>
          \A m \in {"forward", "recompute"} : meta[m] = 0
    /\ \A k \in 1..Len(opLog["recompute"]) :
          opLog["recompute"][k] = opLog["forward"][k]
    /\ \A m \in {"forward", "recompute"} :
          \A k \in 1..Len(opLog[m]) :
              /\ opLog[m][k].func = opSeq[k]
              /\ opLog[m][k].saved <=>
                   /\ opSeq[k] \in {MM, SDPAEfficient, SDPAFlash, ReduceScatter}
                   /\ ~(opSeq[k] = MM /\ MMInPrefix(k) % 2 = 0)

\* C11 witness: after earlier invocations left an odd number of matrix
\* multiplies behind, the first matrix multiply of a later invocation is
\* saved in the forward pass and in the recomputation
C11_LaterInvocationStartsFresh ==
    /\ invocations >= 2
    /\ earlierMM % 2 = 1
    /\ opLog["forward"] = <<[func |-> MM, saved |-> TRUE]>>
    /\ opLog["recompute"] = <<[func |-> MM, saved |-> TRUE]>>

====
